---- MODULE Spec2Model ----
(***************************************************************************)
(* InMemorySessionStore (src/src/storage/InMemorySessionStore.ts): the     *)
(* session map, its clock-based expiry, user-id binding and id generation. *)
(* The store runs on a single-threaded event loop: an async method runs    *)
(* without interruption up to its next `await`, where other calls may run. *)
(* Every action below is one such uninterrupted stretch of a method.       *)
(***************************************************************************)
EXTENDS Integers, Sequences, FiniteSets, TLC

\* ---------------------------------------------------------------- bounds
\* Last instant of the clock (Date.now(), in units of one tick).
MaxTime == 2
\* Store calls made in one behaviour.
MaxCalls == 2
\* Draws of nanoid() in one behaviour that hit a live id.
MaxCollisions == 1

\* ------------------------------------------------------------- constants
\* this.ttlMs, in clock ticks.
ttlMs == 1
\* generateUniqueId: const maxAttempts = 10.
maxAttempts == 10

\* `undefined`, for an absent userId.
Undefined == "undefined"
\* `null`, for no timer.
Null == "null"
\* The ids nanoid() may draw.
Ids == {"a", "b"}
\* The identities a caller may present (X-User-ID), besides none.
Users == {"u1", "u2"}
Callers == Users \cup {Undefined}
\* The identities create is called with.
Owners == {Undefined, "u1"}
\* Slots for the calls suspended at an await at the same time.
Procs == {1, 2}

\* A Todo (types.ts).
TodoA ==
    [id |-> "t1", title |-> "A", description |-> "", tags |-> <<>>,
     status |-> "pending", createdAt |-> 0]

\* Placeholder for "no session" (null / not yet assigned).
NullSession ==
    [id |-> "null", userId |-> Undefined, scratchpad |-> "", todos |-> <<>>,
     createdAt |-> 0, lastModified |-> 0]

\* Partial<Omit<Session, "id" | "createdAt">>: `fields` are the keys the
\* object literal carries, the other entries give their values.
NoUpdates ==
    [fields |-> {}, userId |-> Undefined, scratchpad |-> "", todos |-> <<>>,
     lastModified |-> 0]
UpdateInputs ==
    { [NoUpdates EXCEPT !.fields = {"scratchpad"}, !.scratchpad = "x"],
      [NoUpdates EXCEPT !.fields = {"todos"}, !.todos = <<TodoA>>],
      [NoUpdates EXCEPT !.fields = {"userId"}, !.userId = "u2"] }

\* The input of a todo tool besides session_id: the todo_id, title and status
\* it carries (those its schema has not are left as here).
NoInput == [todoId |-> "null", title |-> "", status |-> "pending"]

VARIABLES
    sessions,   \* this.sessions: Map<string, Session>, as a function id -> Session
    now,        \* Date.now()
    proc,       \* per suspended call: position, arguments, locals
    last,       \* the call that completed last: arguments and outcome
    issued,     \* history: ids returned by create and not removed since
    unowned,    \* history: of those, the ids created with no userId
    cleanupInterval, \* this.cleanupInterval: the timer of the sweeper, or null
    timers,     \* the interval timers the runtime holds active
    calls,      \* number of calls started
    collisions  \* number of draws that hit a live id

vars ==
    <<sessions, now, proc, last, issued, unowned, cleanupInterval, timers,
      calls, collisions>>

\* -------------------------------------------------------------- Map ops
MapDelete(m, k) == [x \in (DOMAIN m) \ {k} |-> m[x]]
\* Variant of Map.set: every key ends up with the one record object.
MapSetShared(m, k, v) == [x \in (DOMAIN m) \cup {k} |-> v]
MapSet(m, k, v) == [x \in (DOMAIN m) \cup {k} |-> IF x = k THEN v ELSE m[x]]

\* ------------------------------------------------------ private helpers
\* Variants of isExpired: the deadline itself counted as expired; the age
\* taken from createdAt.
isExpiredAtDeadline(session) == (now - session.lastModified) >= ttlMs
isExpiredByCreatedAt(session) == (now - session.createdAt) > ttlMs

\* isExpired(session): now - lastModified > ttlMs.
isExpired(session) == (now - session.lastModified) > ttlMs

\* Variant of validateUserId: a caller with no identity passes.
validateUserIdIfGiven(session, userId) ==
    IF session.userId # Undefined
    THEN IF userId # Undefined /\ session.userId # userId
         THEN "UserIdMismatchError"
         ELSE "ok"
    ELSE "ok"

\* validateUserId(session, userId): the error it throws, or "ok".
validateUserId(session, userId) ==
    IF session.userId # Undefined
    THEN IF userId = Undefined \/ session.userId # userId
         THEN "UserIdMismatchError"
         ELSE "ok"
    ELSE "ok"

\* ------------------------------------------- synchronous method bodies
\* Variant of get: the caller is validated before the expiry check.
getReturnValidatingFirst(sessionId, userId) ==
    IF sessionId \notin DOMAIN sessions
    THEN [kind |-> "null", session |-> NullSession]
    ELSE IF validateUserId(sessions[sessionId], userId) # "ok"
    THEN [kind |-> "UserIdMismatchError", session |-> NullSession]
    ELSE IF isExpired(sessions[sessionId])
    THEN [kind |-> "null", session |-> NullSession]
    ELSE [kind |-> "session", session |-> sessions[sessionId]]

\* get(sessionId, userId) has no await: what it returns or throws ...
getReturn(sessionId, userId) ==
    IF sessionId \notin DOMAIN sessions
    THEN [kind |-> "null", session |-> NullSession]
    ELSE IF isExpired(sessions[sessionId])
    THEN [kind |-> "null", session |-> NullSession]
    ELSE IF validateUserId(sessions[sessionId], userId) # "ok"
    THEN [kind |-> "UserIdMismatchError", session |-> NullSession]
    ELSE [kind |-> "session", session |-> sessions[sessionId]]

\* Variant of get: an expired record is reported absent but left in the map.
getSessionsKeeping(sessionId) == sessions

\* Variant of get: a read of a live record refreshes its lastModified.
getSessionsTouching(sessionId) ==
    IF sessionId \notin DOMAIN sessions
    THEN sessions
    ELSE IF isExpired(sessions[sessionId])
    THEN MapDelete(sessions, sessionId)
    ELSE MapSet(sessions, sessionId,
                [sessions[sessionId] EXCEPT !.lastModified = now])

\* ... and the map it leaves (the expired record is deleted).
getSessions(sessionId) ==
    IF sessionId \in DOMAIN sessions /\ isExpired(sessions[sessionId])
    THEN MapDelete(sessions, sessionId)
    ELSE sessions

\* Variant of exists: a session with an owner is reported absent, as to a get
\* without identity.
existsReturnUnownedOnly(sessionId) ==
    IF sessionId \notin DOMAIN sessions
    THEN FALSE
    ELSE IF isExpired(sessions[sessionId]) THEN FALSE
    ELSE sessions[sessionId].userId = Undefined

\* exists(sessionId): its result ...
existsReturn(sessionId) ==
    IF sessionId \notin DOMAIN sessions
    THEN FALSE
    ELSE IF isExpired(sessions[sessionId]) THEN FALSE ELSE TRUE

\* ... and the map it leaves.
existsSessions(sessionId) ==
    IF sessionId \in DOMAIN sessions /\ isExpired(sessions[sessionId])
    THEN MapDelete(sessions, sessionId)
    ELSE sessions

\* Variant of cleanup: its own age test, with the deadline counted as expired.
cleanupDeletedAtDeadline ==
    {k \in DOMAIN sessions : (now - sessions[k].lastModified) >= ttlMs}

\* cleanup(): the keys its loop deletes.
cleanupDeleted == {k \in DOMAIN sessions : isExpired(sessions[k])}

\* Variant of count: only the records that are not expired.
countLive == Cardinality({k \in DOMAIN sessions : ~isExpired(sessions[k])})

\* count(): this.sessions.size.
countReturn == Cardinality(DOMAIN sessions)

\* Variant of update's merge: lastModified is carried over from the record.
updatedSessionKeepingClock(session, updates) ==
    [id |-> session.id,
     userId |-> IF "userId" \in updates.fields
                THEN updates.userId ELSE session.userId,
     scratchpad |-> IF "scratchpad" \in updates.fields
                    THEN updates.scratchpad ELSE session.scratchpad,
     todos |-> IF "todos" \in updates.fields
               THEN updates.todos ELSE session.todos,
     createdAt |-> session.createdAt,
     lastModified |-> session.lastModified]

\* Variant of update's merge: createdAt is refreshed as well.
updatedSessionRecreated(session, updates) ==
    [id |-> session.id,
     userId |-> IF "userId" \in updates.fields
                THEN updates.userId ELSE session.userId,
     scratchpad |-> IF "scratchpad" \in updates.fields
                    THEN updates.scratchpad ELSE session.scratchpad,
     todos |-> IF "todos" \in updates.fields
               THEN updates.todos ELSE session.todos,
     createdAt |-> now,
     lastModified |-> now]

\* Variant of update's merge: the supplied fields are spread last, so that a
\* supplied lastModified stands.
updatedSessionSuppliedLast(session, updates) ==
    [id |-> session.id,
     userId |-> IF "userId" \in updates.fields
                THEN updates.userId ELSE session.userId,
     scratchpad |-> IF "scratchpad" \in updates.fields
                    THEN updates.scratchpad ELSE session.scratchpad,
     todos |-> IF "todos" \in updates.fields
               THEN updates.todos ELSE session.todos,
     createdAt |-> session.createdAt,
     lastModified |-> IF "lastModified" \in updates.fields
                      THEN updates.lastModified ELSE now]

\* update's merge: { ...session, ...updates, lastModified: new Date() }.
updatedSession(session, updates) ==
    [id |-> session.id,
     userId |-> IF "userId" \in updates.fields
                THEN updates.userId ELSE session.userId,
     scratchpad |-> IF "scratchpad" \in updates.fields
                    THEN updates.scratchpad ELSE session.scratchpad,
     todos |-> IF "todos" \in updates.fields
               THEN updates.todos ELSE session.todos,
     createdAt |-> session.createdAt,
     lastModified |-> now]

\* create's new record.
newSession(id, userId) ==
    [id |-> id, userId |-> userId, scratchpad |-> "", todos |-> <<>>,
     createdAt |-> now, lastModified |-> now]

\* ------------------------------------------------------------ call state
\* A slot with no call in it.
IdleProc ==
    [pc |-> "idle", op |-> "none", sessionId |-> "null", userId |-> Undefined,
     updates |-> NoUpdates, got |-> "null", session |-> NullSession,
     attempts |-> 0, collided |-> FALSE, input |-> NoInput]

\* No call has completed yet.
NoCall ==
    [op |-> "none", sessionId |-> "null", result |-> "none", n |-> 0,
     todos |-> <<>>]

\* The record of a completed call: the method, the id it named, and what it
\* returned (a session, null, a boolean, a number) or threw. A returned
\* session is the stored object itself, so the record keeps no copy of it;
\* `todos` is the list a list_todos call answered with.
Done(op, sessionId, result, n) ==
    [op |-> op, sessionId |-> sessionId, result |-> result, n |-> n,
     todos |-> <<>>]

\* The completed call of slot p, with its outcome.
DoneOf(p, result) == Done(proc[p].op, proc[p].sessionId, result, 0)

\* A call may start: it takes the lowest free slot (slots are interchangeable).
CanStart == calls < MaxCalls
FreeSlot(p) ==
    /\ CanStart
    /\ proc[p].pc = "idle"
    /\ \A q \in Procs : q < p => proc[q].pc # "idle"

\* The ids that leave the map when it changes from `sessions` to m.
Removed(m) == (DOMAIN sessions) \ (DOMAIN m)

\* The store as constructed, or after one create("a" drawn) at instant 0.
Init ==
    /\ now = 0
    /\ \/ sessions = <<>>
       \/ \E userId \in Owners :
            sessions = MapSet(<<>>, "a", newSession("a", userId))
    /\ proc = [p \in Procs |-> IdleProc]
    /\ last = NoCall
    /\ issued = DOMAIN sessions
    /\ unowned = {id \in DOMAIN sessions : sessions[id].userId = Undefined}
    /\ cleanupInterval = Null
    /\ timers = {}
    /\ calls = 0
    /\ collisions = 0

\* The clock advances between any two steps.
Tick ==
    /\ now < MaxTime
    /\ now' = now + 1
    /\ UNCHANGED <<sessions, proc, last, issued, unowned, calls, collisions, cleanupInterval, timers>>

\* ------------------------------------------------------------------ get
Get(sessionId, userId) ==
    /\ CanStart
    /\ calls' = calls + 1
    /\ sessions' = getSessions(sessionId)
    /\ issued' = issued \ Removed(getSessions(sessionId))
    /\ unowned' = unowned \ Removed(getSessions(sessionId))
    /\ last' = Done("get", sessionId,
                    getReturn(sessionId, userId).kind, 0)
    /\ UNCHANGED <<now, proc, collisions, cleanupInterval, timers>>

\* --------------------------------------------------------------- exists
Exists(sessionId) ==
    /\ CanStart
    /\ calls' = calls + 1
    /\ sessions' = existsSessions(sessionId)
    /\ issued' = issued \ Removed(existsSessions(sessionId))
    /\ unowned' = unowned \ Removed(existsSessions(sessionId))
    /\ last' = Done("exists", sessionId,
                    IF existsReturn(sessionId) THEN "true" ELSE "false", 0)
    /\ UNCHANGED <<now, proc, collisions, cleanupInterval, timers>>

\* ---------------------------------------------------------------- count
Count ==
    /\ CanStart
    /\ calls' = calls + 1
    /\ last' = Done("count", "null", "number", countReturn)
    /\ UNCHANGED <<sessions, now, proc, issued, unowned, collisions, cleanupInterval, timers>>

\* Variant of cleanup: the count returned is that of the records scanned.
CleanupCountingScanned ==
    /\ CanStart
    /\ calls' = calls + 1
    /\ sessions' = [k \in (DOMAIN sessions) \ cleanupDeleted |-> sessions[k]]
    /\ issued' = issued \ cleanupDeleted
    /\ unowned' = unowned \ cleanupDeleted
    /\ last' = Done("cleanup", "null", "number",
                    Cardinality(DOMAIN sessions))
    /\ UNCHANGED <<now, proc, collisions, cleanupInterval, timers>>

\* -------------------------------------------------------------- cleanup
Cleanup ==
    /\ CanStart
    /\ calls' = calls + 1
    /\ sessions' = [k \in (DOMAIN sessions) \ cleanupDeleted |-> sessions[k]]
    /\ issued' = issued \ cleanupDeleted
    /\ unowned' = unowned \ cleanupDeleted
    /\ last' = Done("cleanup", "null", "number",
                    Cardinality(cleanupDeleted))
    /\ UNCHANGED <<now, proc, collisions, cleanupInterval, timers>>

\* --------------------------------------------------------------- update
\* update up to `await this.get(sessionId, userId)`: get runs at once. The
\* argument userId is not read again after it, and is not kept.
UpdateStart(p, sessionId, updates, userId) ==
    /\ FreeSlot(p)
    /\ calls' = calls + 1
    /\ sessions' = getSessions(sessionId)
    /\ issued' = issued \ Removed(getSessions(sessionId))
    /\ unowned' = unowned \ Removed(getSessions(sessionId))
    /\ proc' = [proc EXCEPT ![p] =
                  [IdleProc EXCEPT
                     !.pc = "update_await",
                     !.op = "update",
                     !.sessionId = sessionId,
                     !.updates = updates,
                     !.got = getReturn(sessionId, userId).kind,
                     !.session = getReturn(sessionId, userId).session]]
    /\ UNCHANGED <<now, last, collisions, cleanupInterval, timers>>

\* update after the await: rethrow, throw not-found, or merge and set.
UpdateResume(p) ==
    /\ proc[p].pc = "update_await"
    /\ IF proc[p].got = "UserIdMismatchError"
       THEN /\ last' = DoneOf(p, "UserIdMismatchError")
            /\ UNCHANGED <<sessions, issued, unowned>>
       ELSE IF proc[p].got = "null"
       THEN /\ last' = DoneOf(p, "SessionNotFoundError")
            /\ UNCHANGED <<sessions, issued, unowned>>
       ELSE /\ sessions' = MapSet(sessions, proc[p].sessionId,
                                  updatedSession(proc[p].session, proc[p].updates))
            /\ last' = DoneOf(p, "ok")
            /\ UNCHANGED <<issued, unowned>>
    /\ proc' = [proc EXCEPT ![p] = IdleProc]
    /\ UNCHANGED <<now, calls, collisions, cleanupInterval, timers>>

\* --------------------------------------------------------------- delete
\* delete up to `await this.get(sessionId, userId)`.
DeleteStart(p, sessionId, userId) ==
    /\ FreeSlot(p)
    /\ calls' = calls + 1
    /\ sessions' = getSessions(sessionId)
    /\ issued' = issued \ Removed(getSessions(sessionId))
    /\ unowned' = unowned \ Removed(getSessions(sessionId))
    /\ proc' = [proc EXCEPT ![p] =
                  [IdleProc EXCEPT
                     !.pc = "delete_await",
                     !.op = "delete",
                     !.sessionId = sessionId,
                     !.got = getReturn(sessionId, userId).kind,
                     !.session = getReturn(sessionId, userId).session]]
    /\ UNCHANGED <<now, last, collisions, cleanupInterval, timers>>

\* Variant of delete: an id with no record is deleted without complaint.
DeleteResumeIdempotent(p) ==
    /\ proc[p].pc = "delete_await"
    /\ IF proc[p].got = "UserIdMismatchError"
       THEN /\ last' = DoneOf(p, "UserIdMismatchError")
            /\ UNCHANGED <<sessions, issued, unowned>>
       ELSE /\ sessions' = MapDelete(sessions, proc[p].sessionId)
            /\ issued' = issued \ {proc[p].sessionId}
            /\ unowned' = unowned \ {proc[p].sessionId}
            /\ last' = DoneOf(p, "ok")
    /\ proc' = [proc EXCEPT ![p] = IdleProc]
    /\ UNCHANGED <<now, calls, collisions, cleanupInterval, timers>>

\* delete after the await: rethrow, throw not-found, or delete the key.
DeleteResume(p) ==
    /\ proc[p].pc = "delete_await"
    /\ IF proc[p].got = "UserIdMismatchError"
       THEN /\ last' = DoneOf(p, "UserIdMismatchError")
            /\ UNCHANGED <<sessions, issued, unowned>>
       ELSE IF proc[p].got = "null"
       THEN /\ last' = DoneOf(p, "SessionNotFoundError")
            /\ UNCHANGED <<sessions, issued, unowned>>
       ELSE /\ sessions' = MapDelete(sessions, proc[p].sessionId)
            /\ issued' = issued \ {proc[p].sessionId}
            /\ unowned' = unowned \ {proc[p].sessionId}
            /\ last' = DoneOf(p, "ok")
    /\ proc' = [proc EXCEPT ![p] = IdleProc]
    /\ UNCHANGED <<now, calls, collisions, cleanupInterval, timers>>

\* --------------------------------------------------------------- create
\* nanoid() may return id: the generator hits a live id only so often.
Draw(id) == existsReturn(id) => collisions < MaxCollisions
Drawn(id) == IF existsReturn(id) THEN collisions + 1 ELSE collisions

\* The local `id` of generateUniqueId while the call is suspended: a
\* candidate that collided is never read again (the loop redraws it first).
Candidate(id) == IF existsReturn(id) THEN "null" ELSE id

\* create -> generateUniqueId, first pass of the loop up to
\* `await this.exists(id)`: draw, count the attempt, run exists at once.
CreateStart(p, userId) ==
    /\ FreeSlot(p)
    /\ calls' = calls + 1
    /\ \E id \in Ids :
         /\ Draw(id)
         /\ collisions' = Drawn(id)
         /\ sessions' = existsSessions(id)
         /\ issued' = issued \ Removed(existsSessions(id))
         /\ unowned' = unowned \ Removed(existsSessions(id))
         /\ proc' = [proc EXCEPT ![p] =
                       [IdleProc EXCEPT
                          !.pc = "generate_await",
                          !.op = "create",
                          !.sessionId = Candidate(id),
                          !.userId = userId,
                          !.attempts = 1,
                          !.collided = existsReturn(id)]]
    /\ UNCHANGED <<now, last, cleanupInterval, timers>>

\* generateUniqueId after the await, the id collided: next pass of the loop.
\* The attempt past maxAttempts throws before exists is asked.
GenerateRetry(p) ==
    /\ proc[p].pc = "generate_await"
    /\ proc[p].collided
    /\ \E id \in Ids :
         IF proc[p].attempts + 1 > maxAttempts
         THEN /\ last' = Done("create", "null", "Error", 0)
              /\ proc' = [proc EXCEPT ![p] = IdleProc]
              /\ UNCHANGED <<sessions, issued, unowned, collisions>>
         ELSE /\ Draw(id)
              /\ collisions' = Drawn(id)
              /\ sessions' = existsSessions(id)
              /\ issued' = issued \ Removed(existsSessions(id))
              /\ unowned' = unowned \ Removed(existsSessions(id))
              /\ proc' = [proc EXCEPT ![p].sessionId = Candidate(id),
                                      ![p].attempts = proc[p].attempts + 1,
                                      ![p].collided = existsReturn(id)]
              /\ UNCHANGED last
    /\ UNCHANGED <<now, calls, cleanupInterval, timers>>

\* generateUniqueId after the await, no collision: return id; create then
\* awaits that promise.
GenerateReturn(p) ==
    /\ proc[p].pc = "generate_await"
    /\ ~proc[p].collided
    /\ proc' = [proc EXCEPT ![p].pc = "create_await"]
    /\ UNCHANGED <<sessions, now, last, issued, unowned, calls, collisions, cleanupInterval, timers>>

\* create after `await this.generateUniqueId()`: build, set, return.
CreateResume(p) ==
    /\ proc[p].pc = "create_await"
    /\ sessions' = MapSet(sessions, proc[p].sessionId,
                          newSession(proc[p].sessionId, proc[p].userId))
    /\ issued' = issued \cup {proc[p].sessionId}
    /\ unowned' = IF proc[p].userId = Undefined
                   THEN unowned \cup {proc[p].sessionId}
                   ELSE unowned \ {proc[p].sessionId}
    /\ last' = DoneOf(p, "ok")
    /\ proc' = [proc EXCEPT ![p] = IdleProc]
    /\ UNCHANGED <<now, calls, collisions, cleanupInterval, timers>>

\* ------------------------------------------------------------ behaviours
Next ==
    \/ Tick
    \/ \E sessionId \in Ids, userId \in Callers : Get(sessionId, userId)
    \/ \E sessionId \in Ids : Exists(sessionId)
    \/ Count
    \/ Cleanup
    \/ \E p \in Procs, sessionId \in Ids, updates \in UpdateInputs,
          userId \in Callers :
         UpdateStart(p, sessionId, updates, userId)
    \/ \E p \in Procs : UpdateResume(p)
    \/ \E p \in Procs, sessionId \in Ids, userId \in Callers :
         DeleteStart(p, sessionId, userId)
    \/ \E p \in Procs : DeleteResume(p)
    \/ \E p \in Procs, userId \in Owners : CreateStart(p, userId)
    \/ \E p \in Procs : GenerateRetry(p)
    \/ \E p \in Procs : GenerateReturn(p)
    \/ \E p \in Procs : CreateResume(p)

Spec == Init /\ [][Next]_vars

\* ------------------------------------------------ id generation, any draw
\* create with a generator that may return any id at every draw, a live one
\* as often as it likes (a broken or low-entropy generator).
\* First pass of generateUniqueId's loop, as in CreateStart. The creates
\* come one after the other here (overlapping creates are part of Next).
CreateStartAnyId(p, userId) ==
    /\ FreeSlot(p)
    /\ \A q \in Procs : proc[q].pc = "idle"
    /\ calls' = calls + 1
    /\ \E id \in Ids :
         /\ sessions' = existsSessions(id)
         /\ issued' = issued \ Removed(existsSessions(id))
         /\ unowned' = unowned \ Removed(existsSessions(id))
         /\ proc' = [proc EXCEPT ![p] =
                       [IdleProc EXCEPT
                          !.pc = "generate_await",
                          !.op = "create",
                          !.sessionId = Candidate(id),
                          !.userId = userId,
                          !.attempts = 1,
                          !.collided = existsReturn(id)]]
    /\ UNCHANGED <<now, last, collisions, cleanupInterval, timers>>

\* Variant of the loop: the attempt past maxAttempts is checked like the
\* others, and only the one after it throws.
GenerateRetryOneMore(p) ==
    /\ proc[p].pc = "generate_await"
    /\ proc[p].collided
    /\ \E id \in Ids :
         IF proc[p].attempts > maxAttempts
         THEN /\ last' = Done("create", "null", "Error", 0)
              /\ proc' = [proc EXCEPT ![p] = IdleProc]
              /\ UNCHANGED <<sessions, issued, unowned>>
         ELSE /\ sessions' = existsSessions(id)
              /\ issued' = issued \ Removed(existsSessions(id))
              /\ unowned' = unowned \ Removed(existsSessions(id))
              /\ proc' = [proc EXCEPT ![p].sessionId = Candidate(id),
                                      ![p].attempts = proc[p].attempts + 1,
                                      ![p].collided = existsReturn(id)]
              /\ UNCHANGED last
    /\ UNCHANGED <<now, calls, collisions, cleanupInterval, timers>>

\* Next pass of the loop after a collision, as in GenerateRetry: draw, count
\* the attempt, throw when it is past maxAttempts, else run exists.
GenerateRetryAnyId(p) ==
    /\ proc[p].pc = "generate_await"
    /\ proc[p].collided
    /\ \E id \in Ids :
         IF proc[p].attempts + 1 > maxAttempts
         THEN /\ last' = Done("create", "null", "Error", 0)
              /\ proc' = [proc EXCEPT ![p] = IdleProc]
              /\ UNCHANGED <<sessions, issued, unowned>>
         ELSE /\ sessions' = existsSessions(id)
              /\ issued' = issued \ Removed(existsSessions(id))
              /\ unowned' = unowned \ Removed(existsSessions(id))
              /\ proc' = [proc EXCEPT ![p].sessionId = Candidate(id),
                                      ![p].attempts = proc[p].attempts + 1,
                                      ![p].collided = existsReturn(id)]
              /\ UNCHANGED last
    /\ UNCHANGED <<now, calls, collisions, cleanupInterval, timers>>

GenNext ==
    \/ Tick
    \/ \E p \in Procs, userId \in Owners : CreateStartAnyId(p, userId)
    \/ \E p \in Procs : GenerateRetryAnyId(p)
    \/ \E p \in Procs : GenerateReturn(p)
    \/ \E p \in Procs : CreateResume(p)

\* The continuations queued on the event loop.
GenResume ==
    \E p \in Procs :
      GenerateRetryAnyId(p) \/ GenerateReturn(p) \/ CreateResume(p)

\* The event loop does not stop while a continuation is queued.
GenSpec == Init /\ [][GenNext]_vars /\ WF_vars(GenResume)

\* ------------------------------------------------------- tool handlers
\* src/src/tools/scratchpad.ts. A handler answers with an encoded string; the
\* model keeps of it what tells the answers apart: the error code passed to
\* encodeError, or which of encodeScratchpad / encodeSuccess produced it.
\* The contents write_scratchpad is called with.
Contents == {"x", "y"}

\* { scratchpad: input.content }
ScratchpadUpdate(content) ==
    [NoUpdates EXCEPT !.fields = {"scratchpad"}, !.scratchpad = content]

\* Variant of readScratchpad: a refused caller is told the session is absent.
ReadScratchpadCollapsing(sessionId, userId) ==
    /\ CanStart
    /\ calls' = calls + 1
    /\ sessions' = getSessions(sessionId)
    /\ issued' = issued \ Removed(getSessions(sessionId))
    /\ unowned' = unowned \ Removed(getSessions(sessionId))
    /\ last' = Done("read_scratchpad", sessionId,
                    IF getReturn(sessionId, userId).kind = "session"
                    THEN "scratchpad" ELSE "SESSION_NOT_FOUND", 0)
    /\ UNCHANGED <<now, proc, collisions, cleanupInterval, timers>>

\* readScratchpad: store.get runs at once; what follows the await only
\* encodes its result.
ReadScratchpad(sessionId, userId) ==
    /\ CanStart
    /\ calls' = calls + 1
    /\ sessions' = getSessions(sessionId)
    /\ issued' = issued \ Removed(getSessions(sessionId))
    /\ unowned' = unowned \ Removed(getSessions(sessionId))
    /\ last' = Done("read_scratchpad", sessionId,
                    IF getReturn(sessionId, userId).kind = "null"
                    THEN "SESSION_NOT_FOUND"
                    ELSE IF getReturn(sessionId, userId).kind
                              = "UserIdMismatchError"
                    THEN "USER_ID_MISMATCH"
                    ELSE "scratchpad", 0)
    /\ UNCHANGED <<now, proc, collisions, cleanupInterval, timers>>

\* writeScratchpad up to the await inside store.update: update's get runs
\* at once.
WriteScratchpadStart(p, sessionId, content, userId) ==
    /\ FreeSlot(p)
    /\ calls' = calls + 1
    /\ sessions' = getSessions(sessionId)
    /\ issued' = issued \ Removed(getSessions(sessionId))
    /\ unowned' = unowned \ Removed(getSessions(sessionId))
    /\ proc' = [proc EXCEPT ![p] =
                  [IdleProc EXCEPT
                     !.pc = "write_await",
                     !.op = "write_scratchpad",
                     !.sessionId = sessionId,
                     !.updates = ScratchpadUpdate(content),
                     !.got = getReturn(sessionId, userId).kind,
                     !.session = getReturn(sessionId, userId).session]]
    /\ UNCHANGED <<now, last, collisions, cleanupInterval, timers>>

\* writeScratchpad after it: update throws or merges and sets; the handler
\* turns each of the two errors into its code, or answers success.
WriteScratchpadResume(p) ==
    /\ proc[p].pc = "write_await"
    /\ IF proc[p].got = "UserIdMismatchError"
       THEN /\ last' = DoneOf(p, "USER_ID_MISMATCH")
            /\ UNCHANGED <<sessions, issued, unowned>>
       ELSE IF proc[p].got = "null"
       THEN /\ last' = DoneOf(p, "SESSION_NOT_FOUND")
            /\ UNCHANGED <<sessions, issued, unowned>>
       ELSE /\ sessions' = MapSet(sessions, proc[p].sessionId,
                                  updatedSession(proc[p].session, proc[p].updates))
            /\ last' = DoneOf(p, "success")
            /\ UNCHANGED <<issued, unowned>>
    /\ proc' = [proc EXCEPT ![p] = IdleProc]
    /\ UNCHANGED <<now, calls, collisions, cleanupInterval, timers>>

\* The tool calls of clients, with the clock and the sweeper.
ToolNext ==
    \/ Tick
    \/ Cleanup
    \/ \E sessionId \in Ids, userId \in Callers :
         ReadScratchpad(sessionId, userId)
    \/ \E p \in Procs, sessionId \in Ids, content \in Contents,
          userId \in Callers :
         WriteScratchpadStart(p, sessionId, content, userId)
    \/ \E p \in Procs : WriteScratchpadResume(p)

ToolSpec == Init /\ [][ToolNext]_vars

\* -------------------------------------------------------------- sweeper
\* The handles setInterval may return.
Timers == {"t1", "t2"}
\* The handle of a new timer: one the runtime does not hold.
NewTimer == IF "t1" \notin timers THEN "t1" ELSE "t2"

\* Variant of startCleanup: no test for a sweeper that already runs.
StartCleanupUnguarded ==
    /\ cleanupInterval' = NewTimer
    /\ timers' = timers \cup {NewTimer}
    /\ UNCHANGED <<sessions, now, proc, last, issued, unowned, calls,
                   collisions>>

\* startCleanup(): return if a sweeper runs, else setInterval.
StartCleanup ==
    /\ IF cleanupInterval # Null
       THEN UNCHANGED <<cleanupInterval, timers>>
       ELSE /\ cleanupInterval' = NewTimer
            /\ timers' = timers \cup {NewTimer}
    /\ UNCHANGED <<sessions, now, proc, last, issued, unowned, calls,
                   collisions>>

\* stopCleanup(): clearInterval and forget the handle, if there is one.
StopCleanup ==
    /\ IF cleanupInterval # Null
       THEN /\ timers' = timers \ {cleanupInterval}
            /\ cleanupInterval' = Null
       ELSE UNCHANGED <<cleanupInterval, timers>>
    /\ UNCHANGED <<sessions, now, proc, last, issued, unowned, calls,
                   collisions>>

\* Variant of the timer: it fires once (setTimeout in place of setInterval).
SweepOnce(h) ==
    /\ h \in timers
    /\ timers' = timers \ {h}
    /\ sessions' = [k \in (DOMAIN sessions) \ cleanupDeleted |-> sessions[k]]
    /\ issued' = issued \ cleanupDeleted
    /\ unowned' = unowned \ cleanupDeleted
    /\ last' = Done("cleanup", "null", "number",
                    Cardinality(cleanupDeleted))
    /\ UNCHANGED <<now, proc, calls, collisions, cleanupInterval>>

\* The timer h fires: its callback runs this.cleanup(), which has no await.
Sweep(h) ==
    /\ h \in timers
    /\ sessions' = [k \in (DOMAIN sessions) \ cleanupDeleted |-> sessions[k]]
    /\ issued' = issued \ cleanupDeleted
    /\ unowned' = unowned \ cleanupDeleted
    /\ last' = Done("cleanup", "null", "number",
                    Cardinality(cleanupDeleted))
    /\ UNCHANGED <<now, proc, calls, collisions, cleanupInterval, timers>>

\* The store with its sweeper: the clock, the lifecycle calls, the timer, and
\* callers that read and update.
SweepNext ==
    \/ Tick
    \/ StartCleanup
    \/ StopCleanup
    \/ \E h \in Timers : Sweep(h)
    \/ \E sessionId \in Ids, userId \in Callers : Get(sessionId, userId)
    \/ \E p \in Procs, sessionId \in Ids, updates \in UpdateInputs,
          userId \in Callers :
         UpdateStart(p, sessionId, updates, userId)
    \/ \E p \in Procs : UpdateResume(p)

\* Time passes, and an active interval timer fires again and again.
SweepSpec ==
    /\ Init
    /\ [][SweepNext]_vars
    /\ WF_vars(Tick)
    /\ WF_vars(\E h \in Timers : Sweep(h))

\* ------------------------------------------------------------- writers
\* Every key `updates` may carry: lastModified (here an early instant) is one
\* of them.
AnyUpdateInputs ==
    UpdateInputs \cup
      { [NoUpdates EXCEPT !.fields = {"lastModified"}],
        [NoUpdates EXCEPT !.fields = {"scratchpad", "lastModified"},
                          !.scratchpad = "x"] }

\* The calls that store records, create and update, and the clock.
WriteNext ==
    \/ Tick
    \/ \E p \in Procs, sessionId \in Ids, updates \in AnyUpdateInputs,
          userId \in Callers :
         UpdateStart(p, sessionId, updates, userId)
    \/ \E p \in Procs : UpdateResume(p)
    \/ \E p \in Procs, userId \in Owners : CreateStart(p, userId)
    \/ \E p \in Procs : GenerateRetry(p)
    \/ \E p \in Procs : GenerateReturn(p)
    \/ \E p \in Procs : CreateResume(p)

WriteSpec == Init /\ [][WriteNext]_vars

\* ----------------------------------------------------------- todo tools
\* add_todo, list_todos, update_todo and delete_todo (tools/todo.ts), as the
\* specification and their tests describe them: a handler reads the session
\* with store.get, works out the new todo sequence from the one it read, and
\* stores it with store.update as a replacement of the whole sequence.
\* The ids the todo id generator returns, one to a call: it returns fresh ids.
TodoIds == <<"n1", "n2", "n3", "n4", "n5">>
\* The session the tools are called on, and the identities of their callers.
TodoSessions == {"a"}
TodoCallers == Users
\* The titles add_todo is given, the statuses update_todo is given, and the
\* filters of list_todos (none included).
Titles == {"D"}
Statuses == {"pending"}
Filters == {"all", "pending", "done", Undefined}
\* The todo ids update_todo and delete_todo are called with ("t9": of no todo).
TodoTargets == {"t2", "t9"}
MutatingTools == {"add_todo", "update_todo", "delete_todo"}

\* Todos added earlier: "A", "B" (since marked done) and "C", in that order.
TodoB == [TodoA EXCEPT !.id = "t2", !.title = "B", !.status = "done"]
TodoC == [TodoA EXCEPT !.id = "t3", !.title = "C"]
AddedTodos == <<TodoA, TodoB, TodoC>>

\* The inputs of a tool besides session_id.
TodoInputs(op) ==
    IF op = "add_todo"
    THEN { [NoInput EXCEPT !.title = title] : title \in Titles }
    ELSE IF op = "update_todo"
    THEN { [NoInput EXCEPT !.todoId = todoId, !.status = status] :
             todoId \in TodoTargets, status \in Statuses }
    ELSE { [NoInput EXCEPT !.todoId = todoId] : todoId \in TodoTargets }

\* add_todo's new todo: pending, no description, no tags.
newTodo(input) ==
    [id |-> input.todoId, title |-> input.title, description |-> "",
     tags |-> <<>>, status |-> "pending", createdAt |-> now]

\* Some todo of the sequence has this id.
hasTodo(todos, todoId) == \E i \in 1..Len(todos) : todos[i].id = todoId

\* update_todo's sequence: the addressed todo with the new status, in place.
statusSet(todos, todoId, status) ==
    [i \in 1..Len(todos) |->
       IF todos[i].id = todoId
       THEN [todos[i] EXCEPT !.status = status] ELSE todos[i]]

\* delete_todo's sequence: the todos with another id, in order.
removedTodos(todos, todoId) == SelectSeq(todos, LAMBDA t : t.id # todoId)

\* The sequence a mutating tool stores, from the one it read.
todosAfter(op, todos, input) ==
    IF op = "add_todo" THEN Append(todos, newTodo(input))
    ELSE IF op = "update_todo"
    THEN statusSet(todos, input.todoId, input.status)
    ELSE removedTodos(todos, input.todoId)

\* Variant of list_todos' filter: `done` lists every todo.
listedDoneAsAll(todos, filter) ==
    IF filter = "pending"
    THEN SelectSeq(todos, LAMBDA t : t.status = filter)
    ELSE todos

\* list_todos' answer: all todos, or those of the status asked for.
listed(todos, filter) ==
    IF filter \in {"pending", "done"}
    THEN SelectSeq(todos, LAMBDA t : t.status = filter)
    ELSE todos

\* { todos: ... }
TodosUpdate(todos) ==
    [NoUpdates EXCEPT !.fields = {"todos"}, !.todos = todos]

\* The code a handler answers with when store.get gave no session.
ErrorCode(got) ==
    IF got = "UserIdMismatchError" THEN "USER_ID_MISMATCH"
    ELSE "SESSION_NOT_FOUND"

\* list_todos: store.get runs at once; what follows the await filters the
\* todos of the session it returned and encodes them.
ListTodos(sessionId, userId, filter) ==
    /\ CanStart
    /\ calls' = calls + 1
    /\ sessions' = getSessions(sessionId)
    /\ issued' = issued \ Removed(getSessions(sessionId))
    /\ unowned' = unowned \ Removed(getSessions(sessionId))
    /\ last' = IF getReturn(sessionId, userId).kind = "session"
               THEN [Done("list_todos", sessionId, "todos", 0) EXCEPT
                       !.todos = listed(getReturn(sessionId, userId)
                                          .session.todos, filter)]
               ELSE Done("list_todos", sessionId,
                         ErrorCode(getReturn(sessionId, userId).kind), 0)
    /\ UNCHANGED <<now, proc, collisions, cleanupInterval, timers>>

\* A mutating tool up to its `await store.get`: get runs at once. add_todo's
\* id is the one the generator has for this call.
TodoStart(p, op, sessionId, userId, input) ==
    /\ FreeSlot(p)
    /\ calls' = calls + 1
    /\ sessions' = getSessions(sessionId)
    /\ issued' = issued \ Removed(getSessions(sessionId))
    /\ unowned' = unowned \ Removed(getSessions(sessionId))
    /\ proc' = [proc EXCEPT ![p] =
                  [IdleProc EXCEPT
                     !.pc = "todo_get_await",
                     !.op = op,
                     !.sessionId = sessionId,
                     !.userId = userId,
                     !.input = IF op = "add_todo"
                               THEN [input EXCEPT !.todoId = TodoIds[calls + 1]]
                               ELSE input,
                     !.got = getReturn(sessionId, userId).kind,
                     !.session = getReturn(sessionId, userId).session]]
    /\ UNCHANGED <<now, last, collisions, cleanupInterval, timers>>

\* The tool after store.get settled: it answers the error, or works out the
\* new sequence from the session it read and calls store.update, whose get
\* runs at once.
TodoCompute(p) ==
    /\ proc[p].pc = "todo_get_await"
    /\ IF proc[p].got # "session"
       THEN /\ last' = DoneOf(p, ErrorCode(proc[p].got))
            /\ proc' = [proc EXCEPT ![p] = IdleProc]
            /\ UNCHANGED <<sessions, issued, unowned>>
       ELSE IF /\ proc[p].op # "add_todo"
               /\ ~hasTodo(proc[p].session.todos, proc[p].input.todoId)
       THEN /\ last' = DoneOf(p, "TODO_NOT_FOUND")
            /\ proc' = [proc EXCEPT ![p] = IdleProc]
            /\ UNCHANGED <<sessions, issued, unowned>>
       ELSE /\ sessions' = getSessions(proc[p].sessionId)
            /\ issued' = issued \ Removed(getSessions(proc[p].sessionId))
            /\ unowned' = unowned \ Removed(getSessions(proc[p].sessionId))
            /\ proc' = [proc EXCEPT ![p] =
                 [proc[p] EXCEPT
                    !.pc = "todo_update_await",
                    !.updates = TodosUpdate(todosAfter(proc[p].op,
                                                       proc[p].session.todos,
                                                       proc[p].input)),
                    !.got = getReturn(proc[p].sessionId, proc[p].userId).kind,
                    !.session = getReturn(proc[p].sessionId,
                                          proc[p].userId).session]]
            /\ UNCHANGED last
    /\ UNCHANGED <<now, calls, collisions, cleanupInterval, timers>>

\* The tool after store.update settled: update threw, or merged the new
\* sequence into the session its get returned and stored the result.
TodoWrite(p) ==
    /\ proc[p].pc = "todo_update_await"
    /\ IF proc[p].got # "session"
       THEN /\ last' = DoneOf(p, ErrorCode(proc[p].got))
            /\ UNCHANGED <<sessions, issued, unowned>>
       ELSE /\ sessions' = MapSet(sessions, proc[p].sessionId,
                                  updatedSession(proc[p].session, proc[p].updates))
            /\ last' = DoneOf(p, "success")
            /\ UNCHANGED <<issued, unowned>>
    /\ proc' = [proc EXCEPT ![p] = IdleProc]
    /\ UNCHANGED <<now, calls, collisions, cleanupInterval, timers>>

\* The store as constructed, or holding session "a" with the todos added to
\* it so far.
TodoInit ==
    /\ now = 0
    /\ \/ sessions = <<>>
       \/ \E userId \in Owners, k \in 0..Len(AddedTodos) :
            sessions = MapSet(<<>>, "a",
                              [newSession("a", userId) EXCEPT
                                 !.todos = SubSeq(AddedTodos, 1, k)])
    /\ proc = [p \in Procs |-> IdleProc]
    /\ last = NoCall
    /\ issued = DOMAIN sessions
    /\ unowned = {id \in DOMAIN sessions : sessions[id].userId = Undefined}
    /\ cleanupInterval = Null
    /\ timers = {}
    /\ calls = 0
    /\ collisions = 0

\* The todo tools called by clients, and the clock.
TodoNext ==
    \/ Tick
    \/ \E sessionId \in TodoSessions, userId \in TodoCallers,
          filter \in Filters :
         ListTodos(sessionId, userId, filter)
    \/ \E p \in Procs, op \in MutatingTools, sessionId \in TodoSessions,
          userId \in TodoCallers :
         \E input \in TodoInputs(op) :
           TodoStart(p, op, sessionId, userId, input)
    \/ \E p \in Procs : TodoCompute(p)
    \/ \E p \in Procs : TodoWrite(p)

TodoSpec == TodoInit /\ [][TodoNext]_vars

\* -------------------------------------------------------------- encoders
\* src/src/utils/tonl.ts and encoder.ts. For the encoders a string is the
\* sequence of its characters; Tab and Newline stand for the two control
\* characters.
MaxLen == 3
Tab == "<TAB>"
Newline == "<LF>"
Backslash == "\\"
Pipe == "|"
Space == " "
Quote == "\""
\* The characters of the titles encoded.
Alphabet == {Backslash, Tab, Newline, Pipe, Space, "t", "n"}
\* The strings over Alphabet of at most MaxLen characters.
Texts == UNION {[1..k -> Alphabet] : k \in 0..MaxLen}

\* String.prototype.replace(/c/g, rep): every c of the text becomes rep.
RECURSIVE ReplaceAll(_, _, _)
ReplaceAll(text, c, rep) ==
    IF text = <<>> THEN <<>>
    ELSE (IF Head(text) = c THEN rep ELSE <<Head(text)>>)
           \o ReplaceAll(Tail(text), c, rep)

\* Array.prototype.join(sep).
RECURSIVE Join(_, _)
Join(texts, sep) ==
    IF texts = <<>> THEN <<>>
    ELSE IF Len(texts) = 1 THEN texts[1]
    ELSE texts[1] \o sep \o Join(Tail(texts), sep)

\* Variant of escapeValue: the backslash is escaped last.
escapeValueBackslashLast(value) ==
    ReplaceAll(
      ReplaceAll(
        ReplaceAll(
          ReplaceAll(value, Tab, <<Backslash, "t">>),
          Newline, <<Backslash, "n">>),
        Pipe, <<Backslash, Pipe>>),
      Backslash, <<Backslash, Backslash>>)

\* escapeValue(value): backslash, then tab, newline and pipe.
escapeValue(value) ==
    ReplaceAll(
      ReplaceAll(
        ReplaceAll(
          ReplaceAll(value, Backslash, <<Backslash, Backslash>>),
          Tab, <<Backslash, "t">>),
        Newline, <<Backslash, "n">>),
      Pipe, <<Backslash, Pipe>>)

\* date.toISOString(): every instant of the model falls on one day.
IsoDate == <<"2", "0", "2", "5", "-", "0", "1", "-", "1", "8">>
IsoTime == <<"T", "0", "0", ":", "0", "0", ":", "0", "0", ".", "0", "0", "0", "Z">>
\* formatDate(date): the part of toISOString() before "T".
formatDate(date) == IsoDate

\* formatTags(tags)
formatTags(tags) ==
    IF Len(tags) = 0 THEN <<"[", "]">>
    ELSE <<"[">> \o Join(tags, <<",">>) \o <<"]">>

\* The columns of the todo table, and the characters of their names.
columns == <<"id", "title", "status", "tags", "createdAt">>
ColumnName ==
    [id |-> <<"i", "d">>, title |-> <<"t", "i", "t", "l", "e">>,
     status |-> <<"s", "t", "a", "t", "u", "s">>, tags |-> <<"t", "a", "g", "s">>,
     createdAt |-> <<"c", "r", "e", "a", "t", "e", "d", "A", "t">>]

\* getTodoValues(todo)
getTodoValues(todo) ==
    [id |-> todo.id,
     title |-> escapeValue(todo.title),
     description |-> escapeValue(todo.description),
     status |-> todo.status,
     tags |-> formatTags(todo.tags),
     createdAt |-> formatDate(todo.createdAt)]

Max(a, b) == IF a >= b THEN a ELSE b

\* calculateColumnWidths(todos, columns)[col]: the widest of the column's name
\* and its values.
RECURSIVE calculateColumnWidths(_, _)
calculateColumnWidths(todos, col) ==
    IF todos = <<>> THEN Len(ColumnName[col])
    ELSE Max(Len(getTodoValues(Head(todos))[col]),
             calculateColumnWidths(Tail(todos), col))

\* String.prototype.padEnd(width)
padEnd(text, width) ==
    IF Len(text) >= width THEN text
    ELSE text \o [i \in 1..(width - Len(text)) |-> Space]

\* Number.prototype.toString() of a count.
Digits == <<"0", "1", "2", "3", "4", "5", "6", "7", "8", "9">>
RECURSIVE DecimalText(_)
DecimalText(n) ==
    IF n < Len(Digits) THEN <<Digits[n + 1]>>
    ELSE DecimalText(n \div Len(Digits)) \o <<Digits[(n % Len(Digits)) + 1]>>

\* `[${todos.length}]{${columns.join(", ")}}`
TonlHeader(n) ==
    <<"[">> \o DecimalText(n) \o <<"]", "{">>
      \o Join([i \in 1..Len(columns) |-> ColumnName[columns[i]]], <<",", Space>>)
      \o <<"}">>

\* One data row: the values padded to the column widths, three spaces between.
TonlRow(todo, todos) ==
    Join([i \in 1..Len(columns) |->
            padEnd(getTodoValues(todo)[columns[i]],
                   calculateColumnWidths(todos, columns[i]))],
         <<Space, Space, Space>>)

\* encodeTodosToTonl(todos)
encodeTodosToTonl(todos) ==
    IF Len(todos) = 0 THEN TonlHeader(0)
    ELSE Join(<<TonlHeader(Len(todos))>>
                \o [i \in 1..Len(todos) |-> TonlRow(todos[i], todos)],
              <<Newline>>)

\* JSON.stringify of a string: quotes around it, and quote, backslash, tab and
\* newline escaped.
jsonString(text) ==
    <<Quote>>
      \o ReplaceAll(
           ReplaceAll(
             ReplaceAll(
               ReplaceAll(text, Backslash, <<Backslash, Backslash>>),
               Quote, <<Backslash, Quote>>),
             Tab, <<Backslash, "t">>),
           Newline, <<Backslash, "n">>)
      \o <<Quote>>

\* The indentation of JSON.stringify(value, null, 2) at a depth.
Indent(depth) == [i \in 1..(depth + depth) |-> Space]

\* JSON.stringify of an array of strings at a depth.
jsonStrings(texts, depth) ==
    IF Len(texts) = 0 THEN <<"[", "]">>
    ELSE <<"[", Newline>>
           \o Join([i \in 1..Len(texts) |->
                      Indent(depth + 1) \o jsonString(texts[i])],
                   <<",", Newline>>)
           \o <<Newline>> \o Indent(depth) \o <<"]">>

\* One `"key": value` line of an object of the array.
jsonMember(key, value) ==
    Indent(2) \o jsonString(key) \o <<":", Space>> \o value

\* JSON.stringify of one todo of the array.
jsonTodo(todo) ==
    Indent(1) \o <<"{", Newline>>
      \o Join(<<jsonMember(ColumnName.id, jsonString(todo.id)),
                jsonMember(ColumnName.title, jsonString(todo.title)),
                jsonMember(<<"d", "e", "s", "c", "r", "i", "p", "t", "i", "o", "n">>,
                           jsonString(todo.description)),
                jsonMember(ColumnName.status, jsonString(todo.status)),
                jsonMember(ColumnName.tags, jsonStrings(todo.tags, 2)),
                jsonMember(ColumnName.createdAt,
                           jsonString(IsoDate \o IsoTime))>>,
              <<",", Newline>>)
      \o <<Newline>> \o Indent(1) \o <<"}">>

\* JSON.stringify(todos.map(...), null, 2)
encodeTodosToJson(todos) ==
    IF Len(todos) = 0 THEN <<"[", "]">>
    ELSE <<"[", Newline>>
           \o Join([i \in 1..Len(todos) |-> jsonTodo(todos[i])],
                   <<",", Newline>>)
           \o <<Newline, "]">>

\* ResponseEncoder.encodeTodos(todos) for a format.
Formats == {"json", "tonl"}
encodeTodos(format, todos) ==
    IF format = "tonl" THEN encodeTodosToTonl(todos)
    ELSE encodeTodosToJson(todos)

\* A title longer than MaxLen: two words with three spaces between them.
SpacedTitle == <<"t", Space, Space, Space, "n">>
\* The titles encoded.
EncTitles == Texts \cup {SpacedTitle}

\* The todos encoded: a todo with any title of EncTitles, alone or followed by
\* a second todo.
EncTodo(title, tags) ==
    [id |-> <<"t", "1">>, title |-> title, description |-> <<>>,
     tags |-> tags, status |-> <<"p", "e", "n", "d", "i", "n", "g">>, createdAt |-> 0]
SecondTodos ==
    { [EncTodo(<<"t">>, <<>>) EXCEPT !.id = <<"t", "2">>, !.status = <<"d", "o", "n", "e">>],
      [EncTodo(<<Backslash, "t">>, <<>>) EXCEPT !.id = <<"t", "2">>],
      [EncTodo(<<Tab>>, <<<<"t">>, <<"n">>>>) EXCEPT !.id = <<"t", "2">>],
      [EncTodo(<<"n">>, <<<<"t", Newline, "n">>>>) EXCEPT !.id = <<"t", "2">>] }
EncTodoLists ==
    {<<>>}
      \cup { <<EncTodo(title, <<>>)>> : title \in EncTitles }
      \cup { <<EncTodo(title, <<>>), second>> :
               title \in EncTitles, second \in SecondTodos }

\* What an encodeTodos call was given and returned.
Encoded(format, todos) ==
    [op |-> "encodeTodos", sessionId |-> "null",
     result |-> encodeTodos(format, todos), n |-> 0,
     todos |-> todos, format |-> format]

\* A session holds the todos; no list has been encoded yet.
EncInit ==
    /\ now = 0
    /\ \E todos \in EncTodoLists :
         sessions = MapSet(<<>>, "a",
                           [newSession("a", Undefined) EXCEPT !.todos = todos])
    /\ proc = [p \in Procs |-> IdleProc]
    /\ last = NoCall
    /\ issued = DOMAIN sessions
    /\ unowned = DOMAIN sessions
    /\ cleanupInterval = Null
    /\ timers = {}
    /\ calls = 0
    /\ collisions = 0

\* encoder.encodeTodos(session.todos), as list_todos calls it.
EncodeTodos(format, sessionId) ==
    /\ sessionId \in DOMAIN sessions
    /\ last' = Encoded(format, sessions[sessionId].todos)
    /\ UNCHANGED <<sessions, now, proc, issued, unowned, cleanupInterval,
                   timers, calls, collisions>>

EncNext == \E format \in Formats, sessionId \in Ids : EncodeTodos(format, sessionId)

EncSpec == EncInit /\ [][EncNext]_vars

\* ================================================================ claims
\* What a call finally reports, given what its lookup gave.
Outcome(got) ==
    IF got = "session" THEN "ok"
    ELSE IF got = "null" THEN "SessionNotFoundError"
    ELSE "UserIdMismatchError"

\* id is a key of the map and its record is within its TTL.
Stored(id) == id \in DOMAIN sessions
WithinTtl(id) == now <= sessions[id].lastModified + ttlMs

C2_ConcurrentUpdatesKeepBoth ==
    [][ \A p \in Procs :
          LET id == proc[p].sessionId
              supplied == proc[p].updates.fields
          IN  ( /\ UpdateResume(p)
                /\ proc[p].got = "session"
                /\ last.op = "update" /\ last.result = "ok"
                /\ last.sessionId = id
                /\ Stored(id) )
              =>
              /\ ( supplied = {"todos"}
                   /\ sessions[id].scratchpad # proc[p].session.scratchpad )
                 => /\ sessions'[id].scratchpad = sessions[id].scratchpad
                    /\ sessions'[id].todos = proc[p].updates.todos
              /\ ( supplied = {"scratchpad"}
                   /\ sessions[id].todos # proc[p].session.todos )
                 => /\ sessions'[id].todos = sessions[id].todos
                    /\ sessions'[id].scratchpad = proc[p].updates.scratchpad
      ]_vars

\* C3: an update whose record was evicted as expired between its lookup and
\* its write (by a get or exists that reported the id absent, or by a cleanup
\* that removed records) does not put the record back and does not succeed.
C3_UpdateNeverRevivesExpired ==
    [][ \A p \in Procs :
          LET id == proc[p].sessionId
          IN  ( /\ UpdateResume(p)
                /\ proc[p].got = "session"
                /\ ~Stored(id)
                /\ now > proc[p].session.lastModified + ttlMs
                /\ \/ last.op = "get" /\ last.sessionId = id
                                      /\ last.result = "null"
                   \/ last.op = "exists" /\ last.sessionId = id
                                         /\ last.result = "false"
                   \/ last.op = "cleanup" /\ last.n > 0 )
              => /\ id \notin DOMAIN sessions'
                 /\ last'.result # "ok"
      ]_vars

\* C4: the ids returned by create calls are pairwise distinct: a create never
\* returns an id that an earlier create returned (unless that record was
\* removed in between, which makes the id free again).
C4_CreateIdsDistinct ==
    [][ \A p \in Procs : CreateResume(p) => proc[p].sessionId \notin issued ]_vars

\* C5: at the moment create writes its record, the id does not map to a
\* non-expired record: no create overwrites a live session.
C5_CreateNeverOverwritesLive ==
    [][ \A p \in Procs :
          CreateResume(p) =>
            ~(Stored(proc[p].sessionId) /\ WithinTtl(proc[p].sessionId))
      ]_vars

\* C6 as claimed: a record whose last activity was at t0 is returned by get
\* exactly at the instants strictly before t0 + TTL, and a cleanup at or after
\* t0 + TTL removes it.
C6_ExpiresAtDeadline ==
    [][ \A id \in Ids :
          Stored(id) =>
            /\ \A u \in Callers :
                 (Get(id, u) /\ validateUserId(sessions[id], u) = "ok") =>
                   (last'.result = "session"
                      <=> now < sessions[id].lastModified + ttlMs)
            /\ (Cleanup /\ now >= sessions[id].lastModified + ttlMs)
                 => id \notin DOMAIN sessions'
      ]_vars

\* C6 amended: the record is returned by get exactly at the instants up to
\* and including t0 + TTL, is not found strictly after t0 + TTL, and a cleanup
\* strictly after t0 + TTL removes it (one at or before t0 + TTL keeps it).
C6_ExpiresAfterDeadline ==
    [][ \A id \in Ids :
          Stored(id) =>
            /\ \A u \in Callers :
                 (Get(id, u) /\ validateUserId(sessions[id], u) = "ok") =>
                   /\ last'.result = "session"
                        <=> now <= sessions[id].lastModified + ttlMs
                   /\ last'.result = "null"
                        <=> now > sessions[id].lastModified + ttlMs
            /\ Cleanup =>
                 (id \notin DOMAIN sessions'
                    <=> now > sessions[id].lastModified + ttlMs)
      ]_vars

\* C6 witness: a get returned a session at the very instant t0 + TTL.
C6_Witness ==
    /\ last.op = "get"
    /\ last.result = "session"
    /\ last.sessionId \in DOMAIN sessions
    /\ now = sessions[last.sessionId].lastModified + ttlMs

\* C7: the lazy and the eager path agree at every instant: a cleanup removes
\* a stored record exactly when, at that instant, exists reports the id
\* absent and get returns null to every caller; it keeps a record exactly
\* when exists reports it and get returns null to no caller.
C7_LazyAndEagerAgree ==
    [][ Cleanup =>
          \A id \in DOMAIN sessions :
            /\ id \notin DOMAIN sessions'
                 <=> ( /\ ~existsReturn(id)
                       /\ \A u \in Callers : getReturn(id, u).kind = "null"
                       /\ id \notin DOMAIN getSessions(id)
                       /\ id \notin DOMAIN existsSessions(id) )
            /\ id \in DOMAIN sessions'
                 <=> ( /\ existsReturn(id)
                       /\ \A u \in Callers : getReturn(id, u).kind # "null"
                       /\ id \in DOMAIN getSessions(id)
                       /\ id \in DOMAIN existsSessions(id) )
      ]_vars

\* C7 witness: a cleanup has removed a record.
C7_Witness == last.op = "cleanup" /\ last.n = 1

\* C8: expiry is measured from the last successful update: a successful
\* update sets lastModified to the instant of its write, and a get by an
\* allowed caller at most TTL after lastModified returns the session, however
\* long ago it was created.
C8_ExpiryFromLastUpdate ==
    [][ /\ \A p \in Procs :
             (UpdateResume(p) /\ proc[p].got = "session") =>
               sessions'[proc[p].sessionId].lastModified = now
        /\ \A id \in Ids, u \in Callers :
             ( /\ Get(id, u)
               /\ Stored(id)
               /\ validateUserId(sessions[id], u) = "ok"
               /\ WithinTtl(id) )
             => /\ last'.result = "session"
                /\ id \in DOMAIN sessions'
      ]_vars

\* C8 witness: a get returned a session created more than TTL ago.
C8_Witness ==
    /\ last.op = "get"
    /\ last.result = "session"
    /\ last.sessionId \in DOMAIN sessions
    /\ now > sessions[last.sessionId].createdAt + ttlMs
    /\ sessions[last.sessionId].lastModified > sessions[last.sessionId].createdAt

\* C9 as claimed: count() returns the number of records that are not expired
\* at the moment of the call, and removes no record.
C9_CountsNonExpired ==
    [][ Count =>
          /\ last'.n = Cardinality({id \in DOMAIN sessions : WithinTtl(id)})
          /\ sessions' = sessions
      ]_vars

\* C9 amended: count() returns the number of records the map holds, expired
\* records that nothing has removed yet included, and removes no record.
C9_CountsStored ==
    [][ Count =>
          /\ last'.op = "count"
          /\ last'.n = Cardinality(DOMAIN sessions)
          /\ sessions' = sessions
      ]_vars

\* C9 witness: count() returned 1 while the only record held is expired.
C9_Witness ==
    /\ last.op = "count"
    /\ last.n = 1
    /\ \E id \in Ids : DOMAIN sessions = {id} /\ ~WithinTtl(id)

\* C10: the owner of a session is fixed at creation: no step changes the
\* userId of a record that stays in the store.
C10_OwnerNeverChanges ==
    [][ \A id \in Ids :
          (id \in DOMAIN sessions /\ id \in DOMAIN sessions')
            => sessions'[id].userId = sessions[id].userId
      ]_vars

\* C11: a session created with no owner accepts every caller for as long as
\* it lives: on such a session, stored and within its TTL, the lookup of every
\* get, update and delete succeeds for each identity and for none, and gives
\* the stored record.
C11_UnownedAcceptsAnyCaller ==
    [][ \A id \in unowned, u \in Callers :
          (Stored(id) /\ WithinTtl(id)) =>
            /\ Get(id, u) => last'.result = "session"
            /\ \A p \in Procs :
                 /\ (\E updates \in UpdateInputs :
                       UpdateStart(p, id, updates, u))
                      => /\ proc'[p].got = "session"
                         /\ proc'[p].session = sessions[id]
                 /\ DeleteStart(p, id, u) => proc'[p].got = "session"
      ]_vars

\* C12: reads do not refresh the activity clock: a get or an exists on a
\* stored session within its TTL leaves the whole map, lastModified included,
\* as it was; and a session whose lastModified lies more than TTL back is
\* reported absent by get and by exists, whatever reads came before.
C12_ReadsKeepClock ==
    [][ \A id \in Ids :
          Stored(id) =>
            /\ WithinTtl(id) =>
                 /\ (\E u \in Callers : Get(id, u)) => sessions' = sessions
                 /\ Exists(id) => /\ sessions' = sessions
                                  /\ last'.result = "true"
            /\ ~WithinTtl(id) =>
                 /\ (\E u \in Callers : Get(id, u)) => last'.result = "null"
                 /\ Exists(id) => last'.result = "false"
      ]_vars

\* C12 witness: exists reported a session at an instant later than its
\* lastModified, and the record still carries the earlier lastModified.
C12_Witness ==
    /\ last.op = "exists"
    /\ last.result = "true"
    /\ last.sessionId \in DOMAIN sessions
    /\ now > sessions[last.sessionId].lastModified

\* C13: after a successful update, an immediate get by an allowed caller
\* returns the session with exactly the supplied scratchpad and/or todos, and
\* the session's lastModified is the instant of the update: not earlier than
\* the value the update read, and strictly later when the clock has advanced
\* since then.
C13_GetReflectsUpdate ==
    [][ \A p \in Procs, id \in Ids :
          LET updates == proc[p].updates
          IN  ( /\ UpdateResume(p)
                /\ proc[p].got = "session"
                /\ proc[p].sessionId = id ) =>
                /\ last'.result = "ok"
                /\ id \in DOMAIN sessions'
                /\ \A u \in Callers :
                     (validateUserId(sessions'[id], u) = "ok") =>
                       /\ getReturn(id, u)'.kind = "session"
                       /\ "scratchpad" \in updates.fields =>
                            getReturn(id, u)'.session.scratchpad
                              = updates.scratchpad
                       /\ "todos" \in updates.fields =>
                            getReturn(id, u)'.session.todos = updates.todos
                /\ sessions'[id].lastModified = now
                /\ sessions'[id].lastModified >= proc[p].session.lastModified
                /\ now > proc[p].session.lastModified =>
                     sessions'[id].lastModified > proc[p].session.lastModified
      ]_vars

\* C13 witness: an update that supplied the scratchpad "x" has succeeded at an
\* instant later than the session's creation; the record holds "x" and the
\* later lastModified.
C13_Witness ==
    /\ last.op = "update"
    /\ last.result = "ok"
    /\ last.sessionId \in DOMAIN sessions
    /\ sessions[last.sessionId].scratchpad = "x"
    /\ sessions[last.sessionId].lastModified = now
    /\ sessions[last.sessionId].lastModified > sessions[last.sessionId].createdAt

\* C14: a delete that succeeds leaves no record under the id, so that a get
\* right after it returns null to every caller; and a delete called on an id
\* that maps to no record (or to an expired one) finds nothing at its lookup,
\* fails with SessionNotFoundError and removes nothing.
C14_DeleteThenNotFound ==
    [][ \A p \in Procs, id \in Ids :
          /\ \A u \in Callers :
               (DeleteStart(p, id, u) /\ ~(Stored(id) /\ WithinTtl(id)))
                 => proc'[p].got = "null"
          /\ (DeleteResume(p) /\ proc[p].sessionId = id) =>
               /\ proc[p].got = "null" =>
                    /\ last'.result = "SessionNotFoundError"
                    /\ sessions' = sessions
               /\ proc[p].got = "session" =>
                    /\ last'.result = "ok"
                    /\ id \notin DOMAIN sessions'
                    /\ \A u \in Callers : getReturn(id, u)'.kind = "null"
      ]_vars

\* C14 witness: a delete of an id with no record has failed with
\* SessionNotFoundError.
C14_Witness ==
    /\ last.op = "delete"
    /\ last.result = "SessionNotFoundError"
    /\ last.sessionId \notin DOMAIN sessions

\* C15: a create that succeeds adds exactly one record: the new session has
\* an empty scratchpad, no todos, createdAt equal to lastModified, the userId
\* it was called with (none when called with none), the map holds one record
\* more than before the write, and every record it held is unchanged.
C15_CreateAddsOneRecord ==
    [][ \A p \in Procs, id \in Ids :
          (CreateResume(p) /\ proc[p].sessionId = id) =>
            /\ last'.result = "ok"
            /\ id \in DOMAIN sessions'
            /\ sessions'[id].scratchpad = ""
            /\ sessions'[id].todos = <<>>
            /\ sessions'[id].createdAt = sessions'[id].lastModified
            /\ sessions'[id].userId = proc[p].userId
            /\ Cardinality(DOMAIN sessions') = Cardinality(DOMAIN sessions) + 1
            /\ \A other \in DOMAIN sessions :
                 /\ other \in DOMAIN sessions'
                 /\ sessions'[other] = sessions[other]
      ]_vars

\* C16: the tool handlers keep the two errors apart: read_scratchpad answers
\* SESSION_NOT_FOUND exactly when the id maps to no stored record within its
\* TTL, and USER_ID_MISMATCH exactly when the record is stored, within its
\* TTL, has a userId, and the caller's identity is another one or none;
\* write_scratchpad finds the same at its lookup and answers with the code of
\* what it found.
C16_ToolErrorsKeptApart ==
    [][ /\ \A id \in Ids, u \in Callers :
             LET live == Stored(id) /\ WithinTtl(id)
                 refused == /\ live
                            /\ sessions[id].userId # Undefined
                            /\ u # sessions[id].userId
             IN  /\ ReadScratchpad(id, u) =>
                      /\ last'.result = "SESSION_NOT_FOUND" <=> ~live
                      /\ last'.result = "USER_ID_MISMATCH" <=> refused
                      /\ last'.result = "scratchpad" <=> (live /\ ~refused)
                 /\ \A p \in Procs, content \in Contents :
                      WriteScratchpadStart(p, id, content, u) =>
                        /\ proc'[p].got = "null" <=> ~live
                        /\ proc'[p].got = "UserIdMismatchError" <=> refused
                        /\ proc'[p].got = "session" <=> (live /\ ~refused)
        /\ \A p \in Procs :
             WriteScratchpadResume(p) =>
               /\ last'.result = "SESSION_NOT_FOUND" <=> proc[p].got = "null"
               /\ last'.result = "USER_ID_MISMATCH"
                    <=> proc[p].got = "UserIdMismatchError"
               /\ last'.result = "success" <=> proc[p].got = "session"
      ]_vars

\* C16 witness: read_scratchpad answered USER_ID_MISMATCH on a stored session
\* bound to "u1" while a write_scratchpad that found no session is in flight.
C16_Witness ==
    /\ last.op = "read_scratchpad"
    /\ last.result = "USER_ID_MISMATCH"
    /\ last.sessionId \in DOMAIN sessions
    /\ sessions[last.sessionId].userId = "u1"
    /\ \E p \in Procs :
         /\ proc[p].pc = "write_await"
         /\ proc[p].got = "null"

\* C17: an expired session is indistinguishable from one that never existed:
\* for every caller, a non-matching one on a session with a userId included,
\* get returns null and the lookups of update and delete find nothing on a
\* stored record past its TTL, exactly as on an id with no record, and the
\* record is gone afterwards; update and delete then fail with
\* SessionNotFoundError, never with UserIdMismatchError. (A lookup is part of
\* the step that starts the call, which counts it.)
C17_ExpiredLooksAbsent ==
    [][ /\ (calls' # calls) =>
             \A id \in Ids :
               (~Stored(id) \/ ~WithinTtl(id)) =>
                 \A u \in Callers :
                   /\ Get(id, u) => /\ last'.result = "null"
                                    /\ id \notin DOMAIN sessions'
                   /\ \A p \in Procs :
                        ( \/ \E updates \in UpdateInputs :
                               UpdateStart(p, id, updates, u)
                          \/ DeleteStart(p, id, u) )
                        => /\ proc'[p].got = "null"
                           /\ id \notin DOMAIN sessions'
        /\ \A p \in Procs :
             ((UpdateResume(p) \/ DeleteResume(p)) /\ proc[p].got = "null")
               => /\ last'.result = "SessionNotFoundError"
                  /\ sessions' = sessions
      ]_vars

\* C17 witness: a session bound to "u1" was found by an update that is still
\* in flight; more than TTL later a get on its id returned null and the
\* record is gone.
C17_Witness ==
    /\ last.op = "get"
    /\ last.result = "null"
    /\ last.sessionId \notin DOMAIN sessions
    /\ \E p \in Procs :
         /\ proc[p].pc = "update_await"
         /\ proc[p].got = "session"
         /\ proc[p].sessionId = last.sessionId
         /\ proc[p].session.userId = "u1"
         /\ now > proc[p].session.lastModified + ttlMs

\* The steps of generateUniqueId in slot p: a pass that checked a candidate,
\* and the pass that threw.
GenerateChecked(p) ==
    /\ (\E u \in Owners : CreateStartAnyId(p, u)) \/ GenerateRetryAnyId(p)
    /\ proc'[p].pc = "generate_await"
GenerateThrew(p) == GenerateRetryAnyId(p) /\ proc'[p].pc = "idle"

\* C18 as claimed: id generation terminates, and a create fails only after
\* the initial candidate and 10 redrawn candidates, eleven in all, were
\* checked against the live sessions and every one of them collided.
C18_ElevenCandidatesChecked ==
    [][ \A p \in Procs :
          GenerateThrew(p) =>
            /\ proc[p].attempts = 1 + maxAttempts
            /\ proc[p].collided
            /\ sessions' = sessions
      ]_vars

\* C18 amended: every create comes to an end; it checks the initial candidate
\* and up to 9 redrawn candidates, ten in all, against the live sessions; a
\* candidate that is not a live id ends the loop and is the id of the session
\* create returns; create fails exactly when all ten candidates collided (the
\* candidate drawn after the tenth collision is dropped unchecked), and a
\* failed create adds no record.
C18_TenCandidatesChecked ==
    /\ [][ \A p \in Procs :
             /\ GenerateChecked(p) =>
                  /\ proc'[p].attempts <= maxAttempts
                  /\ proc'[p].collided =>
                       \E id \in Ids : Stored(id) /\ WithinTtl(id)
                  /\ ~proc'[p].collided =>
                       /\ proc'[p].sessionId \in Ids
                       /\ ~( /\ Stored(proc'[p].sessionId)
                             /\ WithinTtl(proc'[p].sessionId) )
             /\ GenerateRetryAnyId(p) =>
                  (proc'[p].pc = "idle" <=> proc[p].attempts = maxAttempts)
             /\ GenerateThrew(p) =>
                  /\ proc[p].collided
                  /\ last'.result = "Error"
                  /\ sessions' = sessions
             /\ GenerateReturn(p) =>
                  /\ ~proc[p].collided
                  /\ proc'[p].sessionId = proc[p].sessionId
             /\ CreateResume(p) =>
                  /\ last'.result = "ok"
                  /\ last'.sessionId = proc[p].sessionId
                  /\ last'.sessionId \in DOMAIN sessions'
         ]_vars
    /\ \A p \in Procs : (proc[p].pc # "idle") ~> (proc[p].pc = "idle")

\* C18 witness: a create has failed while a live session is stored.
C18_Witness ==
    /\ last.op = "create"
    /\ last.result = "Error"
    /\ \E id \in Ids : Stored(id) /\ WithinTtl(id)

\* C19: every failure of a store operation is one of the three typed error
\* kinds, SessionNotFoundError (NotFound), UserIdMismatchError
\* (IdentityMismatch) or an id-generation-exhausted error: no call ends with
\* a plain, untyped Error.
C19_FailuresAreTyped ==
    last.result \in {"none", "ok", "session", "null", "true", "false",
                     "number", "SessionNotFoundError", "UserIdMismatchError",
                     "IdGenerationExhausted"}

\* C20: cleanup() removes exactly the records that are expired at the
\* instant of the call, leaves every other record as it is, and returns the
\* number of records it removed; in the state it leaves nothing is expired,
\* so that a second cleanup at the same instant removes nothing and returns 0.
C20_CleanupRemovesExpired ==
    [][ Cleanup =>
          /\ DOMAIN sessions' = {k \in DOMAIN sessions : WithinTtl(k)}
          /\ \A k \in DOMAIN sessions' : sessions'[k] = sessions[k]
          /\ last'.op = "cleanup"
          /\ last'.n = Cardinality((DOMAIN sessions) \ (DOMAIN sessions'))
          /\ now' = now
          /\ cleanupDeleted' = {}
          /\ Cardinality(cleanupDeleted') = 0
      ]_vars

\* C20 witness: a cleanup removed one record, returned 1 and kept a record
\* that is within its TTL.
C20_Witness ==
    /\ last.op = "cleanup"
    /\ last.n = 1
    /\ \E id \in Ids : Stored(id) /\ WithinTtl(id)

\* C21: while the sweeper is started and not stopped, a session that receives
\* no further update is eventually removed, with no get, exists, update or
\* delete needed: a stored session whose lastModified is t (with t + TTL
\* before the last instant of the clock) is eventually gone, unless its
\* lastModified changes or the sweeper is stopped.
C21_SweeperRemovesAbandoned ==
    \A id \in Ids, t \in 0..MaxTime :
      ( /\ Stored(id)
        /\ sessions[id].lastModified = t
        /\ t + ttlMs < MaxTime
        /\ cleanupInterval # Null )
      ~> ( \/ ~Stored(id)
           \/ sessions[id].lastModified # t
           \/ cleanupInterval = Null )

\* C21 witness: no caller has made a call, the sweeper runs, and its sweep has
\* removed a session.
C21_Witness ==
    /\ calls = 0
    /\ cleanupInterval # Null
    /\ last.op = "cleanup"
    /\ last.n = 1
    /\ sessions = <<>>

\* C22: under any sequence of startCleanup and stopCleanup at most one sweep
\* timer is active, and it is the one the store holds: startCleanup while a
\* sweeper runs changes nothing, stopCleanup with no sweeper changes nothing,
\* stopCleanup leaves no timer active, and a sweep runs only while the
\* sweeper is started.
C22_AtMostOneSweeper ==
    [][ /\ Cardinality(timers') <= 1
        /\ timers' = IF cleanupInterval' = Null THEN {} ELSE {cleanupInterval'}
        /\ (StartCleanup /\ cleanupInterval # Null) => UNCHANGED vars
        /\ (StartCleanup /\ cleanupInterval = Null) =>
             /\ cleanupInterval' # Null
             /\ timers' = {cleanupInterval'}
        /\ (StopCleanup /\ cleanupInterval = Null) => UNCHANGED vars
        /\ StopCleanup =>
             /\ cleanupInterval' = Null
             /\ timers' = {}
             /\ \A h \in Timers : ~(ENABLED Sweep(h))'
        /\ \A h \in Timers :
             Sweep(h) => (cleanupInterval # Null /\ h = cleanupInterval)
      ]_vars

\* C22 witness: the sweeper was started, a sweep of it removed a session, and
\* it was stopped: no timer is left.
C22_Witness ==
    /\ calls = 0
    /\ cleanupInterval = Null
    /\ timers = {}
    /\ last.op = "cleanup"
    /\ last.n = 1

\* The step is the lookup, or the write, of an update or delete of session id
\* running in slot p.
LooksUp(p, id) ==
    /\ proc[p].pc = "idle"
    /\ proc'[p].pc \in {"update_await", "delete_await"}
    /\ proc'[p].sessionId = id
Writes(p, id) ==
    /\ proc[p].pc \in {"update_await", "delete_await"}
    /\ proc[p].sessionId = id
    /\ proc'[p].pc = "idle"

\* C23: sessions are isolated: every step of an update (a scratchpad write,
\* a replacement of the todos) or of a delete addressed to session A, its
\* lookup as well as its write, leaves every other stored session B in the
\* store with its scratchpad, todos, userId and timestamps unchanged.
C23_SessionsIsolated ==
    [][ \A A \in Ids, B \in Ids :
          (B # A /\ Stored(B)) =>
            \A p \in Procs :
              (LooksUp(p, A) \/ Writes(p, A))
              => /\ B \in DOMAIN sessions'
                 /\ sessions'[B] = sessions[B]
      ]_vars

\* C23 witness: two sessions are stored, an update of one of them has
\* succeeded and set its scratchpad, and the other one is as create left it.
C23_Witness ==
    /\ last.op = "update"
    /\ last.result = "ok"
    /\ \E A \in Ids, B \in Ids :
         /\ B # A
         /\ last.sessionId = A
         /\ Stored(A) /\ Stored(B)
         /\ sessions[A].scratchpad = "x"
         /\ sessions[B].scratchpad = ""
         /\ sessions[B].lastModified = sessions[B].createdAt

\* A todo tool's store.update on session id writes: the step that stores its
\* new sequence.
TodoWrites(p, id) ==
    /\ proc[p].pc = "todo_update_await"
    /\ proc[p].sessionId = id
    /\ proc[p].got = "session"
    /\ proc'[p].pc = "idle"

\* C24: the todo sequence keeps insertion order under every todo operation.
\* When a tool stores its result in a session that is in the store, add_todo's
\* sequence is the stored one with the new todo after its last element,
\* update_todo's is the stored one with only the status of the addressed todo
\* changed, and delete_todo's is the stored one without exactly the addressed
\* todo, the others in their order.
C24_TodoOrderKept ==
    [][\A p \in Procs, id \in TodoSessions :
         (TodoWrites(p, id) /\ id \in DOMAIN sessions)
           => /\ proc[p].op = "add_todo"
                   => /\ Len(sessions'[id].todos) = Len(sessions[id].todos) + 1
                      /\ SubSeq(sessions'[id].todos, 1, Len(sessions[id].todos))
                           = sessions[id].todos
                      /\ sessions'[id].todos[Len(sessions'[id].todos)].id
                           = proc[p].input.todoId
                      /\ sessions'[id].todos[Len(sessions'[id].todos)].title
                           = proc[p].input.title
              /\ proc[p].op = "update_todo"
                   => /\ Len(sessions'[id].todos) = Len(sessions[id].todos)
                      /\ \A i \in 1..Len(sessions[id].todos) :
                           IF sessions[id].todos[i].id = proc[p].input.todoId
                           THEN sessions'[id].todos[i]
                                  = [sessions[id].todos[i] EXCEPT
                                       !.status = proc[p].input.status]
                           ELSE sessions'[id].todos[i] = sessions[id].todos[i]
              /\ proc[p].op = "delete_todo"
                   => /\ Len(sessions'[id].todos) = Len(sessions[id].todos) - 1
                      /\ sessions'[id].todos
                           = SelectSeq(sessions[id].todos,
                                       LAMBDA t : t.id # proc[p].input.todoId)
    ]_vars

\* C25: list_todos returns the stored todos of the status asked for, in their
\* stored order. Whatever add_todo, update_todo and delete_todo calls came
\* before, a list_todos call on a live session by a caller the session
\* accepts answers with a list: with filter pending (or done) exactly the
\* stored todos of that status in their stored order, with filter all or no
\* filter the whole stored sequence; and it leaves the stored sequence as it
\* was.
C25_ListReturnsStoredByStatus ==
    [][(calls' # calls /\ proc' = proc)
         => \A sessionId \in TodoSessions, userId \in TodoCallers,
               filter \in Filters :
              ( /\ ListTodos(sessionId, userId, filter)
                /\ sessionId \in DOMAIN sessions
                /\ ~isExpired(sessions[sessionId])
                /\ validateUserId(sessions[sessionId], userId) = "ok" )
                => /\ last'.op = "list_todos"
                   /\ last'.result = "todos"
                   /\ filter \in {"pending", "done"}
                        => last'.todos
                             = SelectSeq(sessions[sessionId].todos,
                                         LAMBDA t : t.status = filter)
                   /\ filter \in {"all", Undefined}
                        => last'.todos = sessions[sessionId].todos
                   /\ sessions'[sessionId].todos = sessions[sessionId].todos
    ]_vars

\* A list_todos call after an add_todo answered with the new todo but not
\* with every stored todo: the filter left one out.
C25_Witness ==
    /\ last.op = "list_todos"
    /\ last.result = "todos"
    /\ last.sessionId \in DOMAIN sessions
    /\ Len(last.todos) < Len(sessions[last.sessionId].todos)
    /\ \E i \in 1..Len(last.todos) : last.todos[i].id = TodoIds[1]

\* update_todo or delete_todo on session id reaches its store.get.
TodoLooksUp(p, id) ==
    /\ proc[p].pc = "idle"
    /\ proc'[p].pc = "todo_get_await"
    /\ proc'[p].op \in {"update_todo", "delete_todo"}
    /\ proc'[p].sessionId = id

\* C26: update_todo and delete_todo report errors in a fixed precedence. The
\* tool's lookup finds no session when the id maps to no record or to an
\* expired one, whoever calls; else it is refused when the record has an owner
\* and the caller is not that owner, whatever the todo id; else it finds the
\* session. The tool then answers SESSION_NOT_FOUND in the first case,
\* USER_ID_MISMATCH in the second, and in the third TODO_NOT_FOUND when no
\* todo of the session it read has the given id; answering TODO_NOT_FOUND it
\* leaves the store as it is.
C26_TodoErrorPrecedence ==
    [][\A p \in Procs, id \in TodoSessions :
         /\ TodoLooksUp(p, id)
              => proc'[p].got
                   = IF id \notin DOMAIN sessions THEN "null"
                     ELSE IF now - sessions[id].lastModified > ttlMs
                     THEN "null"
                     ELSE IF /\ sessions[id].userId # Undefined
                             /\ sessions[id].userId # proc'[p].userId
                     THEN "UserIdMismatchError"
                     ELSE "session"
         /\ ( /\ proc[p].pc = "todo_get_await"
              /\ proc[p].op \in {"update_todo", "delete_todo"}
              /\ proc[p].sessionId = id
              /\ proc'[p].pc # "todo_get_await" )
              => /\ proc[p].got = "null"
                   => /\ last' = DoneOf(p, "SESSION_NOT_FOUND")
                      /\ proc'[p].pc = "idle"
                 /\ proc[p].got = "UserIdMismatchError"
                   => /\ last' = DoneOf(p, "USER_ID_MISMATCH")
                      /\ proc'[p].pc = "idle"
                 /\ ( /\ proc[p].got = "session"
                      /\ \A i \in 1..Len(proc[p].session.todos) :
                           proc[p].session.todos[i].id # proc[p].input.todoId )
                   => /\ last' = DoneOf(p, "TODO_NOT_FOUND")
                      /\ proc'[p].pc = "idle"
                      /\ sessions' = sessions
                 /\ ( /\ proc[p].got = "session"
                      /\ \E i \in 1..Len(proc[p].session.todos) :
                           proc[p].session.todos[i].id = proc[p].input.todoId )
                   => proc'[p].pc = "todo_update_await"
    ]_vars

\* update_todo or delete_todo on a session that has an owner and no todos
\* (so that the todo id is of no todo) answered USER_ID_MISMATCH.
C26_Witness ==
    /\ last.op \in {"update_todo", "delete_todo"}
    /\ last.result = "USER_ID_MISMATCH"
    /\ last.sessionId \in DOMAIN sessions
    /\ sessions[last.sessionId].userId # Undefined
    /\ sessions[last.sessionId].todos = <<>>
\* The ids of the todos of a sequence.
TodoIdsOf(todos) == {todos[i].id : i \in 1..Len(todos)}

\* C27: todo operations are atomic, so that of two overlapping todo-mutating
\* calls on a session neither undoes the other. When a tool stores its result
\* in a session that is in the store, the only changes to the stored todos are
\* its own: a todo stored before is stored after, unless delete_todo addresses
\* it, and with its status, unless update_todo addresses it; a todo stored
\* after was stored before, unless add_todo made it.
C27_TodoWritesKeepOthers ==
    [][\A p \in Procs, id \in TodoSessions :
         (TodoWrites(p, id) /\ id \in DOMAIN sessions)
           => /\ \A i \in 1..Len(sessions[id].todos) :
                   ~( /\ proc[p].op = "delete_todo"
                      /\ sessions[id].todos[i].id = proc[p].input.todoId )
                   => \E j \in 1..Len(sessions'[id].todos) :
                        /\ sessions'[id].todos[j].id = sessions[id].todos[i].id
                        /\ ~( /\ proc[p].op = "update_todo"
                              /\ sessions[id].todos[i].id
                                   = proc[p].input.todoId )
                             => sessions'[id].todos[j].status
                                  = sessions[id].todos[i].status
              /\ \A j \in 1..Len(sessions'[id].todos) :
                   ~( /\ proc[p].op = "add_todo"
                      /\ sessions'[id].todos[j].id = proc[p].input.todoId )
                   => sessions'[id].todos[j].id \in TodoIdsOf(sessions[id].todos)
    ]_vars
\* C28: exists(id) returns true exactly when id maps to a non-expired record.
\* It takes no caller identity: the answer is true for a record within its
\* ttl whether or not it has an owner, and false for an id that maps to no
\* record or to an expired one.
C28_ExistsIffLive ==
    [][(calls' # calls /\ proc' = proc)
         => \A id \in Ids :
              Exists(id)
                => /\ last'.op = "exists"
                   /\ last'.sessionId = id
                   /\ (last'.result = "true")
                        <=> ( /\ id \in DOMAIN sessions
                              /\ now - sessions[id].lastModified <= ttlMs )
                   /\ last'.result \in {"true", "false"}
    ]_vars

\* exists answered true for a session that has an owner.
C28_Witness ==
    /\ last.op = "exists"
    /\ last.result = "true"
    /\ last.sessionId \in DOMAIN sessions
    /\ sessions[last.sessionId].userId # Undefined
\* The step is a get or an exists of id.
Reads(id) ==
    /\ calls' # calls
    /\ proc' = proc
    /\ last'.op \in {"get", "exists"}
    /\ last'.sessionId = id

\* C29: lazy eviction is a visible side effect of access. When a get, an
\* exists, or the lookup of an update or a delete names an id whose record is
\* expired, that step removes the record, whoever calls, and leaves the other
\* records: what count returns is one less than before.
C29_AccessEvictsExpired ==
    [][\A id \in Ids :
         ( /\ Stored(id)
           /\ ~WithinTtl(id)
           /\ (Reads(id) \/ \E p \in Procs : LooksUp(p, id)) )
           => /\ id \notin DOMAIN sessions'
              /\ countReturn' = countReturn - 1
              /\ \A other \in (DOMAIN sessions) \ {id} :
                   /\ other \in DOMAIN sessions'
                   /\ sessions'[other] = sessions[other]
    ]_vars

\* Two calls were made: an update, still in flight, that found the session,
\* and more than TTL later an exists of its id, which answered false; the
\* record is gone.
C29_Witness ==
    /\ calls = 2
    /\ last.op = "exists"
    /\ last.result = "false"
    /\ last.sessionId \notin DOMAIN sessions
    /\ \E p \in Procs :
         /\ proc[p].pc = "update_await"
         /\ proc[p].got = "session"
         /\ proc[p].sessionId = last.sessionId
         /\ now > proc[p].session.lastModified + ttlMs
\* C30: the id and createdAt of a session never change after creation. Every
\* stored record's id is the key it is stored under, and its createdAt is the
\* value create set: a record is stored by create, with the key as id and the
\* instant of the write as createdAt, or by an update, with the id and the
\* createdAt of the record the update read under that key; no other step
\* changes the createdAt of a stored record.
C30_IdAndCreatedAtKept ==
    /\ [](\A id \in DOMAIN sessions : sessions[id].id = id)
    /\ [][\A id \in DOMAIN sessions' :
            \/ /\ id \in DOMAIN sessions
               /\ sessions'[id].createdAt = sessions[id].createdAt
            \/ \E p \in Procs :
                 /\ proc[p].pc = "create_await"
                 /\ proc'[p].pc = "idle"
                 /\ proc[p].sessionId = id
                 /\ sessions'[id].createdAt = now
            \/ \E p \in Procs :
                 /\ Writes(p, id)
                 /\ proc[p].op = "update"
                 /\ proc[p].got = "session"
                 /\ proc[p].session.id = id
                 /\ sessions'[id].createdAt = proc[p].session.createdAt
       ]_vars

\* An update at a later instant than the creation has written the session:
\* lastModified is new, createdAt is the instant of creation.
C30_Witness ==
    /\ last.op = "update"
    /\ last.result = "ok"
    /\ last.sessionId \in DOMAIN sessions
    /\ sessions[last.sessionId].lastModified = now
    /\ sessions[last.sessionId].createdAt < now
\* C33: a rejected access changes nothing. Both steps of an update or delete
\* that fails with UserIdMismatchError, or with SessionNotFoundError for an id
\* that maps to no record, leave the map as it is: its lookup, which finds the
\* record of another owner or no record, and the step in which it throws. The
\* targeted session keeps its scratchpad, todos, owner and lastModified.
C33_RejectedAccessChangesNothing ==
    [][\A p \in Procs, id \in Ids :
         /\ ( /\ LooksUp(p, id)
              /\ \/ proc'[p].got = "UserIdMismatchError"
                 \/ id \notin DOMAIN sessions )
              => /\ proc'[p].got # "session"
                 /\ sessions' = sessions
         /\ ( /\ Writes(p, id)
              /\ proc[p].got # "session" )
              => /\ sessions' = sessions
                 /\ last'.result
                      = IF proc[p].got = "null"
                        THEN "SessionNotFoundError" ELSE "UserIdMismatchError"
    ]_vars

\* An update was refused with UserIdMismatchError after the clock moved on:
\* the session is stored with the lastModified it had.
C33_Witness ==
    /\ last.op = "update"
    /\ last.result = "UserIdMismatchError"
    /\ last.sessionId \in DOMAIN sessions
    /\ sessions[last.sessionId].userId # Undefined
    /\ sessions[last.sessionId].lastModified < now
\* The record of session id has an owner, and the step changes nothing of the
\* store but that record's scratchpad and todos: the states before and after
\* it are two stores that differ only in this content.
OnlyContentChanges(id) ==
    /\ id \in DOMAIN sessions
    /\ sessions[id].userId # Undefined
    /\ now' = now
    /\ DOMAIN sessions' = DOMAIN sessions
    /\ \A other \in (DOMAIN sessions) \ {id} : sessions'[other] = sessions[other]
    /\ sessions'[id] # sessions[id]
    /\ sessions'[id] = [sessions[id] EXCEPT
                          !.scratchpad = sessions'[id].scratchpad,
                          !.todos = sessions'[id].todos]

\* C34: noninterference for bound sessions. In two stores that differ only in
\* the scratchpad and todos of a session bound to owner U, every store
\* operation of a caller whose identity is not U, or who gives none, has the
\* same outcome: get, and the lookup of update and delete, on any id return or
\* throw the same, exists answers the same, count and cleanup return the same.
C34_ContentHiddenFromOthers ==
    [][\A id \in Ids :
         OnlyContentChanges(id)
           => /\ \A sessionId \in Ids, u \in Callers \ {sessions[id].userId} :
                   /\ getReturn(sessionId, u)' = getReturn(sessionId, u)
                   /\ DOMAIN getSessions(sessionId)'
                        = DOMAIN getSessions(sessionId)
              /\ \A sessionId \in Ids :
                   existsReturn(sessionId)' = existsReturn(sessionId)
              /\ countReturn' = countReturn
              /\ cleanupDeleted' = cleanupDeleted
    ]_vars

\* The owner's update, at the instant of the session's last change, replaced
\* the content of a bound session and nothing else.
C34_Witness ==
    /\ last.op = "update"
    /\ last.result = "ok"
    /\ last.sessionId \in DOMAIN sessions
    /\ sessions[last.sessionId].userId # Undefined
    /\ sessions[last.sessionId].lastModified = sessions[last.sessionId].createdAt
    /\ \/ sessions[last.sessionId].scratchpad # ""
       \/ sessions[last.sessionId].todos # <<>>
\* C35: a deleted session stays deleted. After a delete of id has succeeded
\* and left no record under id, a record appears under id again only when a
\* create stores it; no update puts it back.
C35_DeletedStaysDeleted ==
    [][\A id \in Ids :
         ( /\ last.op = "delete"
           /\ last.result = "ok"
           /\ last.sessionId = id
           /\ id \notin DOMAIN sessions
           /\ id \in DOMAIN sessions' )
           => \E p \in Procs :
                /\ proc[p].pc = "create_await"
                /\ proc[p].sessionId = id
                /\ proc'[p].pc = "idle"
    ]_vars
\* C36: an update changes only what it supplies. When an update that supplies
\* only the scratchpad stores its result, the stored record becomes what it
\* was with the new scratchpad and lastModified set to the instant of the
\* write: todos, owner, id and createdAt are as they were; likewise, with
\* scratchpad and todos exchanged, for an update that supplies only the todos.
C36_UpdateChangesOnlySupplied ==
    [][\A p \in Procs, id \in Ids :
         ( /\ Writes(p, id)
           /\ proc[p].op = "update"
           /\ proc[p].got = "session"
           /\ Stored(id) )
           => /\ proc[p].updates.fields = {"scratchpad"}
                   => sessions'[id]
                        = [sessions[id] EXCEPT
                             !.scratchpad = proc[p].updates.scratchpad,
                             !.lastModified = now]
              /\ proc[p].updates.fields = {"todos"}
                   => sessions'[id]
                        = [sessions[id] EXCEPT
                             !.todos = proc[p].updates.todos,
                             !.lastModified = now]
    ]_vars
\* C37: with a clock that does not go back, every stored record has
\* createdAt <= lastModified <= now, and while an id stays in the store the
\* lastModified of its record never decreases, whatever keys an update
\* carries, lastModified included.
C37_TimestampsOrdered ==
    /\ [](\A id \in DOMAIN sessions :
            /\ sessions[id].createdAt <= sessions[id].lastModified
            /\ sessions[id].lastModified <= now)
    /\ [][\A id \in (DOMAIN sessions) \cap (DOMAIN sessions') :
            sessions'[id].lastModified >= sessions[id].lastModified]_vars

\* An update that carried an early lastModified has written after the clock
\* moved on, and the record's lastModified is the instant of the write.
C37_Witness ==
    /\ last.op = "update"
    /\ last.result = "ok"
    /\ last.sessionId \in DOMAIN sessions
    /\ sessions[last.sessionId].scratchpad = ""
    /\ sessions[last.sessionId].todos = <<>>
    /\ sessions[last.sessionId].userId # "u2"
    /\ sessions[last.sessionId].lastModified = now
    /\ sessions[last.sessionId].createdAt < now
    /\ calls = 1

\* The reading of an escaped value: a backslash and the character after it
\* stand for one character.
RECURSIVE Unescape(_)
Unescape(text) ==
    IF text = <<>> THEN <<>>
    ELSE IF Head(text) = Backslash /\ Len(text) >= 2
      THEN <<CASE text[2] = "t" -> Tab
               [] text[2] = "n" -> Newline
               [] OTHER -> text[2]>>
             \o Unescape(Tail(Tail(text)))
      ELSE <<Head(text)>> \o Unescape(Tail(text))

\* The titles of the todos a session holds.
TitlesOf(id) == {sessions[id].todos[i].title : i \in 1..Len(sessions[id].todos)}

\* C38: escapeValue is reversible: reading the escaped form of a title gives
\* the title back, and two different titles never have the same escaped form.
C38_EscapeReversible ==
    \A id \in DOMAIN sessions :
      \A title \in TitlesOf(id) :
        /\ Unescape(escapeValue(title)) = title
        /\ \A other \in TitlesOf(id) :
             escapeValue(other) = escapeValue(title) => other = title

\* A table was encoded whose two titles are a tab and a backslash followed by
\* "t", the pair that only the order of the replacements tells apart.
C38_Witness ==
    /\ last.op = "encodeTodos"
    /\ last.format = "tonl"
    /\ Len(last.todos) = 2
    /\ last.todos[1].title = <<Backslash, "t">>
    /\ last.todos[2].title = <<Tab>>
    /\ escapeValue(last.todos[1].title) # escapeValue(last.todos[2].title)

\* The lines of a text: its pieces between newlines.
RECURSIVE LinesOf(_)
LinesOf(text) ==
    IF \A i \in 1..Len(text) : text[i] # Newline THEN <<text>>
    ELSE LET i == CHOOSE k \in 1..Len(text) :
                    /\ text[k] = Newline
                    /\ \A j \in 1..(k - 1) : text[j] # Newline
         IN <<SubSeq(text, 1, i - 1)>> \o LinesOf(SubSeq(text, i + 1, Len(text)))

\* The number of columns a table row splits into: a column starts at the
\* start of the row and after every run of the three separating spaces or more.
ColumnsOfRow(line) ==
    Cardinality({ i \in 1..Len(line) :
                    /\ line[i] # Space
                    /\ \/ i = 1
                       \/ /\ i > 3
                          /\ line[i - 1] = Space
                          /\ line[i - 2] = Space
                          /\ line[i - 3] = Space })

\* The number of columns a table header names.
ColumnsOfHeader(line) ==
    Cardinality({ i \in 1..Len(line) : line[i] = "," }) + 1

\* The todos of a list have no tags, and their titles start and end with a
\* character that is not a space.
PlainTagsSolidTitles(todos) ==
    \A i \in 1..Len(todos) :
      /\ todos[i].tags = <<>>
      /\ todos[i].title # <<>>
      /\ Head(todos[i].title) # Space
      /\ todos[i].title[Len(todos[i].title)] # Space

\* C32: in the TONL table no raw tab or newline of a title reaches the output,
\* every todo occupies exactly one line, and every such line splits into
\* exactly the columns of the header. Stated for todos without tags whose
\* titles neither start nor end with a space.
C32_OneLineAndHeaderColumns ==
    (/\ last.op = "encodeTodos"
     /\ last.format = "tonl"
     /\ Len(last.todos) > 0
     /\ PlainTagsSolidTitles(last.todos))
    => LET lines == LinesOf(last.result)
       IN /\ \A i \in 1..Len(last.result) : last.result[i] # Tab
          /\ Len(lines) = Len(last.todos) + 1
          /\ \A i \in 2..Len(lines) :
               ColumnsOfRow(lines[i]) = ColumnsOfHeader(lines[1])

\* The number a table header announces between its brackets.
RECURSIVE DecimalValue(_)
DecimalValue(text) ==
    IF text = <<>> THEN 0
    ELSE DecimalValue(SubSeq(text, 1, Len(text) - 1)) * Len(Digits)
           + (CHOOSE d \in 0..(Len(Digits) - 1) :
                Digits[d + 1] = text[Len(text)])
HeaderCount(line) ==
    LET close == CHOOSE k \in 1..Len(line) :
                   /\ line[k] = "]"
                   /\ \A j \in 1..(k - 1) : line[j] # "]"
    IN DecimalValue(SubSeq(line, 2, close - 1))

\* C31: in both formats the encoding of a list is the encoding of the empty
\* list exactly when the list is empty, and the count in the header of a TONL
\* table is the number of lines after the header.
C31_EmptyDistinctCountIsRows ==
    last.op = "encodeTodos"
    => /\ (last.result = encodeTodos(last.format, <<>>)) <=> (last.todos = <<>>)
       /\ last.format = "tonl"
            => HeaderCount(LinesOf(last.result)[1])
                 = Len(LinesOf(last.result)) - 1

====
